---------------------------- MODULE Spec2Model ----------------------------
(***************************************************************************)
(* Price prediction and bargain detection pipeline of property-price-lookup *)
(* (src/src/ml/feature_engineering.py, model_trainer.py, predictor.py).     *)
(*                                                                         *)
(* A DataFrame is a record [cols, rows]: cols is the set of column names,   *)
(* rows a sequence of [idx, n, v]: idx the row's index label, v the row's   *)
(* values (a function over the column names) and n the number of            *)
(* consecutive identical rows it stands for (a training frame of 100 rows   *)
(* is written as a few rows with multiplicities).                           *)
(*                                                                         *)
(* A float64 is a record [n, d]: n/d in lowest terms with d > 0 for a       *)
(* finite value, [1,0] for +inf, [-1,0] for -inf and [0,0] for NaN.         *)
(* Rounding of finite results is not modelled: finite arithmetic is exact.  *)
(***************************************************************************)
EXTENDS Integers, Sequences, FiniteSets, TLC

VARIABLES
    t_model,        \* ModelTrainer.model (NoModel = None)
    t_encoders,     \* ModelTrainer.feature_engineer.label_encoders
    t_metrics,      \* ModelTrainer.metrics is filled in
    t_importance,   \* ModelTrainer.feature_importance is not None
    t_trains,       \* number of train calls made (bounded by MaxTrains)
    t_returned,     \* history: some train call has returned its metrics
    model_file,     \* content of LATEST_MODEL_PATH (NoFile = absent)
    meta_file,      \* content of MODEL_METADATA_PATH (NoFile = absent)
    clock,          \* datetime.now()
    p_model,        \* PricePredictor.model
    p_encoders,     \* PricePredictor.feature_engineer.label_encoders (NoFE = None)
    p_version,      \* PricePredictor.model_version
    out,            \* outcome of the pipeline call in progress / just returned
    fe_encoders,    \* label_encoders of a stand-alone FeatureEngineer
    fe_call,        \* its last create_features call: state before, input, result
    fe_prep,        \* its last prepare_training_data call
    ro,             \* the last remove_outliers call: input and result
    io_model,       \* bytes of LATEST_MODEL_PATH as concurrent processes see them
    io_meta,        \* bytes of MODEL_METADATA_PATH as concurrent processes see them
    io_writer,      \* position of each process running save_model
    io_reader,      \* position of the process running PricePredictor.load_model
    io_clock,       \* datetime.now() of the concurrent processes
    db_predictions, \* rows of the predictions table, in insertion order
    db_result,      \* the last get_bargain_properties result
    db_properties,  \* rows of the properties table, by property_id
    db_seq,         \* sqlite_sequence of predictions: the last id given
    db_now,         \* the time at the store
    db_call,        \* the last call on the store: operation, argument, return
    bands,          \* the last banding of one listing: its values and bands
    fetch,          \* the fetch_html call in progress: position, requests made
    app             \* the page after the last script run, and the pending click

vars == <<t_model, t_encoders, t_metrics, t_importance, t_trains, t_returned,
          model_file,
          meta_file, clock, p_model, p_encoders, p_version, out,
          fe_encoders, fe_call, fe_prep, ro, io_model, io_meta, io_writer,
          io_reader, io_clock, db_predictions, db_result, db_properties, db_seq,
          db_now, db_call, bands, fetch, app>>

pipeVars == <<t_model, t_encoders, t_metrics, t_importance, t_trains, t_returned,
          model_file,
              meta_file, clock, p_model, p_encoders, p_version, out>>

feVars == <<fe_encoders, fe_call>>

ioVars == <<io_model, io_meta, io_writer, io_reader, io_clock>>

dbVars == <<db_predictions, db_result, db_properties, db_seq, db_now, db_call>>

(* the stand-alone calls added to the ones above *)
moreVars == <<bands, fetch, app>>

(* what the calls on the trainer and the predictor leave alone *)
sideVars == <<feVars, fe_prep, ro, ioVars, dbVars, moreVars>>

-----------------------------------------------------------------------------
(* Bounds of the model *)

MaxRows == 2        \* rows (with multiplicity) written in one input frame
MaxTrains == 1      \* train calls on the one trainer
MaxClock == 1       \* save_model calls (each reads datetime.now())
MaxOutlierRows == 3 \* rows (with multiplicity) of a frame given to remove_outliers
MaxRecords == 3     \* rows ever written to the predictions table
MaxDay == 1         \* days the clock of the store runs

(* ML_SETTINGS["min_data_count"] *)
min_data_count == 100

(* n_std passed by ModelTrainer.train to remove_outliers *)
n_std == 3

-----------------------------------------------------------------------------
(* float64 *)

Abs(i) == IF i < 0 THEN -i ELSE i

Sign(i) == IF i < 0 THEN -1 ELSE IF i > 0 THEN 1 ELSE 0

RECURSIVE Gcd(_, _)
Gcd(a, b) == IF b = 0 THEN a ELSE Gcd(b, a % b)

Norm(n, d) ==
    IF d = 0 THEN [n |-> Sign(n), d |-> 0]
    ELSE LET g == Gcd(Abs(n), Abs(d))
             s == IF d < 0 THEN -1 ELSE 1
         IN  [n |-> (s * n) \div g, d |-> (s * d) \div g]

NaN == [n |-> 0, d |-> 0]
PosInf == [n |-> 1, d |-> 0]
NegInf == [n |-> -1, d |-> 0]
F(i) == [n |-> i, d |-> 1]

IsNaN(x) == x.n = 0 /\ x.d = 0
IsFinite(x) == x.d > 0

FNeg(x) == [n |-> -x.n, d |-> x.d]

FAdd(x, y) ==
    IF IsNaN(x) \/ IsNaN(y) THEN NaN
    ELSE IF x.d = 0 /\ y.d = 0 THEN (IF x.n = y.n THEN x ELSE NaN)
    ELSE IF x.d = 0 THEN x
    ELSE IF y.d = 0 THEN y
    ELSE Norm(x.n * y.d + y.n * x.d, x.d * y.d)

FSub(x, y) == FAdd(x, FNeg(y))

FMul(x, y) ==
    IF IsNaN(x) \/ IsNaN(y) THEN NaN ELSE Norm(x.n * y.n, x.d * y.d)

FDiv(x, y) ==
    IF IsNaN(x) \/ IsNaN(y) THEN NaN
    ELSE IF y.n < 0 THEN Norm(-(x.n * y.d), x.d * (-y.n))
    ELSE Norm(x.n * y.d, x.d * y.n)

(* comparisons: every comparison with NaN is False *)
FLe(x, y) ==
    /\ ~IsNaN(x) /\ ~IsNaN(y)
    /\ IF x.d = 0 /\ y.d = 0 THEN x.n <= y.n ELSE x.n * y.d <= y.n * x.d

FLt(x, y) ==
    /\ ~IsNaN(x) /\ ~IsNaN(y)
    /\ IF x.d = 0 /\ y.d = 0 THEN x.n < y.n ELSE x.n * y.d < y.n * x.d

FGe(x, y) == FLe(y, x)
FGt(x, y) == FLt(y, x)

(* ndarray.astype(int) of a finite value: truncation toward zero *)
AsTypeInt(x) == Sign(x.n) * (Abs(x.n) \div x.d)

-----------------------------------------------------------------------------
(* Columns and values *)

SeqToSet(s) == {s[i] : i \in DOMAIN s}

(* a missing (None / NaN) value of a string or categorical column *)
NA == "<NA>"

(* the literal the code fills missing categorical fields with (U+4E0D U+660E) *)
Fumei == "fumei"

numeric_columns ==
    <<"building_age", "floor_area", "floor_number", "total_floors",
      "station_distance", "management_fee", "repair_reserve_fund">>

categorical_columns ==
    <<"prefecture", "city", "layout", "structure", "direction">>

label_encode_cols ==
    <<"prefecture", "city", "layout", "structure", "direction",
      "station_distance_category", "age_category", "area_category">>

Encoded(col) ==
    CASE col = "prefecture" -> "prefecture_encoded"
      [] col = "city" -> "city_encoded"
      [] col = "layout" -> "layout_encoded"
      [] col = "structure" -> "structure_encoded"
      [] col = "direction" -> "direction_encoded"
      [] col = "station_distance_category" -> "station_distance_category_encoded"
      [] col = "age_category" -> "age_category_encoded"
      [] col = "area_category" -> "area_category_encoded"

get_feature_columns ==
    <<"floor_area", "building_age", "floor_number", "total_floors",
      "station_distance", "management_fee", "repair_reserve_fund",
      "building_age_squared", "mgmt_fee_per_sqm", "floor_ratio", "room_count",
      "prefecture_encoded", "city_encoded", "layout_encoded",
      "structure_encoded", "direction_encoded",
      "station_distance_category_encoded", "age_category_encoded",
      "area_category_encoded">>

(* the columns of a listing as the store returns it *)
AllColumns ==
    {"property_id", "price"} \cup SeqToSet(numeric_columns)
        \cup SeqToSet(categorical_columns)

(* every string used as a category, in ascending code-point order: the     *)
(* order np.unique sorts them in when a LabelEncoder is fitted             *)
StrOrder ==
    <<"1K", "2LDK", "Kanagawa", "Minato", "RC", "S", "Saitama", "Tokyo",
      "close", "far", "fumei", "large", "medium", "nan", "new", "old",
      "relatively_new", "small", "studio", "very_close", "very_large",
      "very_old">>

Rank(s) == CHOOSE i \in DOMAIN StrOrder : StrOrder[i] = s

(* the characters of the layout strings the model uses *)
Chars(layout) ==
    CASE layout = "2LDK" -> <<"2", "L", "D", "K">>
      [] layout = "1K" -> <<"1", "K">>
      [] layout = "studio" -> <<"s", "t", "u", "d", "i", "o">>
      [] layout = Fumei -> <<"f", "u", "m", "e", "i">>

Digits == <<"0", "1", "2", "3", "4", "5", "6", "7", "8", "9">>

IsDigit(c) == \E i \in DOMAIN Digits : Digits[i] = c

DigitValue(c) == (CHOOSE i \in DOMAIN Digits : Digits[i] = c) - 1

(* int() of the digit run of cs that starts at position i *)
RECURSIVE ParseRun(_, _, _)
ParseRun(cs, i, acc) ==
    IF i > Len(cs) \/ ~IsDigit(cs[i]) THEN acc
    ELSE ParseRun(cs, i + 1, acc * 10 + DigitValue(cs[i]))

(* FeatureEngineer._extract_room_count: re.search(r"(\d+)", layout) *)
extract_room_count(layout) ==
    IF layout = NA THEN 1
    ELSE LET cs == Chars(layout)
             firsts == {i \in DOMAIN cs : IsDigit(cs[i])}
         IN  IF firsts = {} THEN 1
             ELSE ParseRun(cs, CHOOSE i \in firsts : \A j \in firsts : i <= j, 0)

-----------------------------------------------------------------------------
(* DataFrame helpers *)

(* len(df) *)
FrameLen(df) ==
    LET f[i \in 0..Len(df.rows)] ==
            IF i = 0 THEN 0 ELSE f[i - 1] + df.rows[i].n
    IN  f[Len(df.rows)]

(* number of rows (with multiplicity) whose value in col satisfies Test *)
CountRows(df, col, Test(_)) ==
    LET f[i \in 0..Len(df.rows)] ==
            IF i = 0 THEN 0
            ELSE f[i - 1] + (IF Test(df.rows[i].v[col]) THEN df.rows[i].n ELSE 0)
    IN  f[Len(df.rows)]

(* Series.median(): NaN skipped; NaN when nothing is left *)
Median(df, col) ==
    LET vals == {df.rows[i].v[col] : i \in DOMAIN df.rows} \ {NaN}
        NotNaN(x) == ~IsNaN(x)
        N == CountRows(df, col, NotNaN)
        Kth(k) == CHOOSE x \in vals :
                      LET Lt(y) == FLt(y, x)
                          Le(y) == FLe(y, x)
                      IN  CountRows(df, col, Lt) < k /\ k <= CountRows(df, col, Le)
    IN  IF N = 0 THEN NaN
        ELSE IF N % 2 = 1 THEN Kth((N + 1) \div 2)
        ELSE FDiv(FAdd(Kth(N \div 2), Kth(N \div 2 + 1)), F(2))

(* Body(x), with x evaluated once *)
Bind(x, Body(_)) == CHOOSE y \in {Body(v) : v \in {x}} : TRUE

(* df with columns cols and every row's values v overridden by Row(v) *)
MapRows(df, cols, Row(_)) ==
    [cols |-> cols,
     rows |-> [i \in DOMAIN df.rows |->
                  [idx |-> df.rows[i].idx, n |-> df.rows[i].n,
                   v |-> Row(df.rows[i].v) @@ df.rows[i].v]]]

(* df[mask]: the rows whose values satisfy Keep, in their order *)
FilterRows(df, Keep(_)) ==
    LET Test(r) == Keep(r.v)
    IN  [cols |-> df.cols, rows |-> SelectSeq(df.rows, Test)]

-----------------------------------------------------------------------------
(* FeatureEngineer *)

EmptyFrame == [cols |-> {}, rows |-> << >>]

(* FeatureEngineer.__init__: label_encoders = {} *)
EmptyEncoders == [c \in {} |-> {}]

NumericColumns == SeqToSet(numeric_columns)
CategoricalColumns == SeqToSet(categorical_columns)

(* FeatureEngineer._clean_basic_features *)
clean_basic_features(df) ==
    LET median == [c \in NumericColumns \cap df.cols |-> Median(df, c)]
        Row(v) ==
            [c \in {c \in NumericColumns \cap df.cols : IsNaN(v[c])} |-> median[c]]
            @@ [c \in {c \in CategoricalColumns \cap df.cols : v[c] = NA} |-> Fumei]
    IN  MapRows(df, df.cols, Row)

(* a banding with left-closed, right-open intervals *)
CutLeftClosed(x, bins, labels) ==
    LET hit == {i \in DOMAIN labels : FLe(bins[i], x) /\ FLt(x, bins[i + 1])}
    IN  IF hit = {} THEN NA ELSE labels[CHOOSE i \in hit : TRUE]

(* pd.cut(x, bins, labels): right-closed intervals, NaN outside all of them *)
Cut(x, bins, labels) ==
    LET hit == {i \in DOMAIN labels : FLt(bins[i], x) /\ FLe(x, bins[i + 1])}
    IN  IF hit = {} THEN NA ELSE labels[CHOOSE i \in hit : TRUE]

station_bins == <<F(0), F(5), F(10), F(15), PosInf>>
station_labels == <<"very_close", "close", "medium", "far">>
age_bins == <<F(0), F(5), F(10), F(20), F(30), PosInf>>
age_labels == <<"new", "relatively_new", "medium", "old", "very_old">>
area_bins == <<F(0), F(40), F(60), F(80), PosInf>>
area_labels == <<"small", "medium", "large", "very_large">>

(* FeatureEngineer._create_derived_features *)
create_derived_features(df) ==
    LET Has(c) == c \in df.cols
        new ==
            (IF Has("building_age")
             THEN {"building_age_squared", "age_category"} ELSE {})
            \cup (IF Has("floor_area") /\ Has("management_fee")
                  THEN {"mgmt_fee_per_sqm"} ELSE {})
            \cup (IF Has("floor_number") /\ Has("total_floors")
                  THEN {"floor_ratio"} ELSE {})
            \cup (IF Has("station_distance")
                  THEN {"station_distance_category"} ELSE {})
            \cup (IF Has("layout") THEN {"room_count"} ELSE {})
            \cup (IF Has("floor_area") THEN {"area_category"} ELSE {})
        Row(v) ==
            [c \in new |->
                CASE c = "building_age_squared" ->
                        FMul(v["building_age"], v["building_age"])
                  [] c = "mgmt_fee_per_sqm" ->
                        FDiv(v["management_fee"], FAdd(v["floor_area"], F(1)))
                  [] c = "floor_ratio" ->
                        FDiv(v["floor_number"], FAdd(v["total_floors"], F(1)))
                  [] c = "station_distance_category" ->
                        Cut(v["station_distance"], station_bins, station_labels)
                  [] c = "room_count" -> F(extract_room_count(v["layout"]))
                  [] c = "age_category" ->
                        Cut(v["building_age"], age_bins, age_labels)
                  [] c = "area_category" ->
                        Cut(v["floor_area"], area_bins, area_labels)]
    IN  MapRows(df, df.cols \cup new, Row)

(* Series.astype(str) of a categorical / object column *)
AsStr(x) == IF x = NA THEN "nan" ELSE x

(* LabelEncoder.fit: classes_ are the distinct values (kept sorted) *)
LabelFit(values) == values

(* a transform that accepts every value (what C4 rules out) *)
TransformAccepts(classes, values) == FALSE

(* LabelEncoder.transform raises ValueError on a value not in classes_ *)
TransformRaises(classes, values) == values \ classes # {}

(* LabelEncoder.transform of one value: its position in the sorted classes_ *)
LabelCode(classes, x) == Cardinality({c \in classes : Rank(c) < Rank(x)})

(* FeatureEngineer._encode_categorical_features, from the i-th column of   *)
(* label_encode_cols on; an exception leaves the encoders fitted so far    *)
RECURSIVE encode_categorical_from(_, _, _)
encode_categorical_from(i, encoders, df) ==
    IF i > Len(label_encode_cols)
    THEN [status |-> "ok", encoders |-> encoders, df |-> df]
    ELSE
      LET col == label_encode_cols[i]
          values == {AsStr(df.rows[k].v[col]) : k \in DOMAIN df.rows}
          WithCodes(classes) ==
              LET Row(v) == Encoded(col) :> F(LabelCode(classes, AsStr(v[col])))
              IN  MapRows(df, df.cols \cup {Encoded(col)}, Row)
      IN  IF col \notin df.cols
          THEN encode_categorical_from(i + 1, encoders, df)
          ELSE IF col \notin DOMAIN encoders
          THEN LET classes == LabelFit(values)
               IN  encode_categorical_from(
                       i + 1, encoders @@ (col :> classes), WithCodes(classes))
          ELSE IF TransformRaises(encoders[col], values)
          THEN [status |-> "UnknownCategory", encoders |-> encoders,
                df |-> EmptyFrame]
          ELSE encode_categorical_from(i + 1, encoders, WithCodes(encoders[col]))

encode_categorical_features(encoders, df) ==
    encode_categorical_from(1, encoders, df)

(* FeatureEngineer.create_features: [status, encoders, df] *)
create_features(encoders, df) ==
    encode_categorical_features(
        encoders, create_derived_features(clean_basic_features(df)))

(* the get_feature_columns() that are columns of df, in that order *)
available_cols(df) ==
    LET In(c) == c \in df.cols IN SelectSeq(get_feature_columns, In)

-----------------------------------------------------------------------------
(* Input frames *)

MkListing(price, age, pref) ==
    [property_id |-> 0, price |-> price, building_age |-> age,
     floor_area |-> F(50), floor_number |-> F(2), total_floors |-> F(5),
     station_distance |-> F(5), management_fee |-> F(10),
     repair_reserve_fund |-> F(5), prefecture |-> pref, city |-> "Minato",
     layout |-> "2LDK", structure |-> "RC", direction |-> "S"]

(* the frame with columns cols whose i-th row is items[i].n copies of       *)
(* listing items[i].l; property_id and index label are the position        *)
Frame(cols, items) ==
    [cols |-> cols,
     rows |-> [i \in DOMAIN items |->
                 [idx |-> i, n |-> items[i].n,
                  v |-> [c \in cols |->
                           IF c = "property_id" THEN i ELSE items[i].l[c]]]]]

Frames(colsets, listings, counts) ==
    {Frame(cols, items) :
        cols \in colsets,
        items \in UNION {[1..k -> [l : listings, n : counts]] : k \in 1..MaxRows}}

ColumnSets == {AllColumns, AllColumns \ {"direction"}}

FEListings ==
    {MkListing(F(4), age, "Tokyo") : age \in {NaN, F(3), F(30)}}
        \cup {MkListing(F(4), F(3), "Kanagawa")}

FEFrames == Frames({AllColumns}, FEListings, {1})

(* a training batch may hold a listing without a price *)
PrepListings ==
    {MkListing(F(4), NaN, "Tokyo"), MkListing(F(4), F(3), "Tokyo"),
     MkListing(F(4), F(3), "Kanagawa"), MkListing(NaN, F(3), "Tokyo")}

PrepFrames == Frames({AllColumns}, PrepListings, {1})

-----------------------------------------------------------------------------
(* Outlier removal *)

(* sum over the rows (with multiplicity) of Term(values) *)
SumRows(df, Term(_)) ==
    LET f[i \in 0..Len(df.rows)] ==
            IF i = 0 THEN F(0)
            ELSE FAdd(f[i - 1], FMul(F(df.rows[i].n), Term(df.rows[i].v)))
    IN  f[Len(df.rows)]

(* remove_outliers(df, column, n_std): Series.mean() and Series.std() skip *)
(* NaN, and std() divides by N - 1.  p <= mean + n_std * std is decided on *)
(* squares: p - mean <= 0, or (p - mean)^2 <= n_std^2 * var                *)
remove_outliers(df, column) ==
    LET NotNaN(x) == ~IsNaN(x)
        Val(v) == IF IsNaN(v[column]) THEN F(0) ELSE v[column]
        WithMean(mean) ==
            LET Dev2(v) == IF IsNaN(v[column]) THEN F(0)
                           ELSE FMul(FSub(v[column], mean), FSub(v[column], mean))
                WithVar(var) ==
                    LET Within(d) == FLe(FMul(d, d), FMul(F(n_std * n_std), var))
                        Keep(v) ==
                            /\ ~IsNaN(v[column]) /\ ~IsNaN(mean) /\ ~IsNaN(var)
                            \* df[column] >= lower_bound
                            /\ \/ FGe(v[column], mean)
                               \/ Within(FSub(v[column], mean))
                            \* df[column] <= upper_bound
                            /\ \/ FLe(v[column], mean)
                               \/ Within(FSub(v[column], mean))
                    IN  FilterRows(df, Keep)
            IN  Bind(FDiv(SumRows(df, Dev2),
                          F(CountRows(df, column, NotNaN) - 1)), WithVar)
    IN  Bind(FDiv(SumRows(df, Val), F(CountRows(df, column, NotNaN))), WithMean)

-----------------------------------------------------------------------------
(* Inputs of the pipeline *)

TrainListings ==
    {MkListing(F(4), F(3), "Tokyo"), MkListing(F(4), F(3), "Kanagawa"),
     MkListing(NaN, F(3), "Tokyo")}

TrainFrames == Frames(ColumnSets, TrainListings, {1, min_data_count - 1})

ScoreListings ==
    {MkListing(price, F(3), pref) :
        price \in {NaN, F(4), F(8)}, pref \in {"Tokyo", "Kanagawa"}}
        \cup {MkListing(F(4), NaN, "Tokyo")}

(* an inference batch may also lack another column than the training one *)
ScoreColumnSets == ColumnSets \cup {AllColumns \ {"structure"}}

ScoreFrames == Frames(ScoreColumnSets, ScoreListings, {1})

MinRates == {F(0), F(20)}

-----------------------------------------------------------------------------
(* A FeatureEngineer on its own *)

NoCall == [before |-> EmptyEncoders, df |-> EmptyFrame,
           res |-> [status |-> "none", encoders |-> EmptyEncoders,
                    df |-> EmptyFrame]]

NoPrep == [before |-> EmptyEncoders, df |-> EmptyFrame,
           res |-> [status |-> "none", encoders |-> EmptyEncoders,
                    cols |-> << >>, df |-> EmptyFrame]]

FEInit ==
    /\ fe_encoders = EmptyEncoders
    /\ fe_call = NoCall
    /\ fe_prep = NoPrep

(* FeatureEngineer() *)
FENew ==
    /\ fe_encoders # EmptyEncoders
    /\ fe_encoders' = EmptyEncoders
    /\ fe_call' = NoCall
    /\ fe_prep' = NoPrep

(* FeatureEngineer.create_features(df) *)
FECreateFeatures(df) ==
    \E res \in {create_features(fe_encoders, df)} :
        /\ fe_encoders' = res.encoders
        /\ fe_call' = [before |-> fe_encoders, df |-> df, res |-> res]
        /\ fe_prep' = NoPrep

-----------------------------------------------------------------------------
(* Training *)

(* prepare_training_data that looks at the features only and keeps a row  *)
(* without a price                                                         *)
prepare_training_data_unpriced(encoders, df) ==
    LET Prepared(res) ==
            LET Selected(cols) ==
                    LET Valid(v) == \A i \in DOMAIN cols : ~IsNaN(v[cols[i]])
                    IN  [status |-> "ok", encoders |-> res.encoders,
                         cols |-> cols, df |-> FilterRows(res.df, Valid)]
            IN  IF res.status # "ok"
                THEN [status |-> res.status, encoders |-> res.encoders,
                      cols |-> << >>, df |-> EmptyFrame]
                ELSE Bind(available_cols(res.df), Selected)
    IN  Bind(create_features(encoders, df), Prepared)

(* FeatureEngineer.prepare_training_data: [status, encoders, cols, df];    *)
(* df holds the rows of X and y that are kept                              *)
prepare_training_data(encoders, df) ==
    LET Prepared(res) ==
            LET Selected(cols) ==
                    LET Valid(v) ==
                            /\ \A i \in DOMAIN cols : ~IsNaN(v[cols[i]])
                            /\ ~IsNaN(v["price"])
                    IN  [status |-> "ok", encoders |-> res.encoders,
                         cols |-> cols, df |-> FilterRows(res.df, Valid)]
            IN  IF res.status # "ok"
                THEN [status |-> res.status, encoders |-> res.encoders,
                      cols |-> << >>, df |-> EmptyFrame]
                ELSE Bind(available_cols(res.df), Selected)
    IN  Bind(create_features(encoders, df), Prepared)

(* FeatureEngineer.prepare_training_data(df) *)
FEPrepareTrainingData(df) ==
    \E res \in {prepare_training_data(fe_encoders, df)} :
        /\ fe_encoders' = res.encoders
        /\ fe_prep' = [before |-> fe_encoders, df |-> df, res |-> res]
        /\ fe_call' = NoCall

-----------------------------------------------------------------------------
(* The fitted regressor.  The gradient-boosted ensemble is a deterministic *)
(* function of the feature row; it is modelled by one decision stump over  *)
(* the feature at position pos of X, and by the columns of X seen at fit    *)
(* (feature_name_).  Which stump a fit produces is not modelled: any of     *)
(* Stumps.                                                                  *)

NoModel == [feature_name |-> << >>, pos |-> 0, thr |-> NaN, left |-> NaN,
            right |-> NaN]

Half(i) == Norm(i, 2)

Stumps ==
    {[pos |-> 12, thr |-> F(0), left |-> Half(11), right |-> Half(21)],
     [pos |-> 12, thr |-> F(0), left |-> Half(1), right |-> Half(-11)]}

Fitted(cols, stump) ==
    [feature_name |-> cols, pos |-> stump.pos, thr |-> stump.thr,
     left |-> stump.left, right |-> stump.right]

(* LGBMRegressor.predict checks the number of features of its input, not   *)
(* their names                                                             *)
PredictRaises(model, cols) == Len(cols) # Len(model.feature_name)

(* LGBMRegressor.predict for one row x of X (columns cols) *)
ModelPredict(model, cols, x) ==
    IF FLe(x[cols[model.pos]], model.thr) THEN model.left ELSE model.right

-----------------------------------------------------------------------------
(* ModelTrainer *)

NoFile == [exists |-> FALSE, model |-> NoModel, encoders |-> EmptyEncoders]
NoMeta == [exists |-> FALSE, trained_at |-> 0]

(* the outcome of a call: the operation, how it ended (status), and what   *)
(* the claims read of it: the frame passed in (arg), the columns of X       *)
(* (cols), the rows predict scored (scored), the rows returned (rows), the  *)
(* number of training rows kept (n) and min_discount_rate (min_rate)        *)
Idle == [op |-> "idle", status |-> "ok", arg |-> EmptyFrame, cols |-> << >>,
         scored |-> << >>, rows |-> << >>, n |-> 0, min_rate |-> NaN]

Result(op, status, arg, cols, scored, rows, n, min_rate) ==
    [op |-> op, status |-> status, arg |-> arg, cols |-> cols,
     scored |-> scored, rows |-> rows, n |-> n, min_rate |-> min_rate]

(* the library calls of train that may raise, in the order train makes them *)
RaisePoints == {"none", "train_test_split", "fit", "evaluate", "feature_importance"}

(* train_prepare that also refuses exactly min_data_count rows *)
train_prepare_above(self, df, remove_outliers_flag) ==
    LET Checked(prep) ==
            LET n == FrameLen(prep.df)
            IN  [status |-> IF prep.status # "ok" THEN prep.status
                            ELSE IF n <= min_data_count THEN "InsufficientData"
                            ELSE "ok",
                 encoders |-> prep.encoders, cols |-> prep.cols, n |-> n]
    IN  Bind(prepare_training_data(
                 self.encoders,
                 IF remove_outliers_flag THEN remove_outliers(df, "price") ELSE df),
             Checked)

(* ModelTrainer.train, lines 45-61: outlier removal, feature preparation   *)
(* and the min_data_count check.  [status, encoders, cols, n]              *)
train_prepare(self, df, remove_outliers_flag) ==
    LET Checked(prep) ==
            LET n == FrameLen(prep.df)
            IN  [status |-> IF prep.status # "ok" THEN prep.status
                            ELSE IF n < min_data_count THEN "InsufficientData"
                            ELSE "ok",
                 encoders |-> prep.encoders, cols |-> prep.cols, n |-> n]
    IN  Bind(prepare_training_data(
                 self.encoders,
                 IF remove_outliers_flag THEN remove_outliers(df, "price") ELSE df),
             Checked)

(* ModelTrainer.train, lines 63-94, after train_prepare returned prep:     *)
(* raise_at is the library call that raises (if the call gets that far),   *)
(* stump the regressor a successful fit returns.  The trainer's fields     *)
(* [model, encoders, metrics, importance] after the call, and the outcome. *)
train_fit(self, prep, raise_at, stump) ==
    LET status == IF prep.status # "ok" THEN prep.status
                  ELSE IF raise_at # "none" THEN raise_at ELSE "ok"
        fitted == status \in {"ok", "evaluate", "feature_importance"}
        evaluated == status \in {"ok", "feature_importance"}
    IN  [model |-> IF fitted THEN Fitted(prep.cols, stump) ELSE self.model,
         encoders |-> prep.encoders,
         metrics |-> IF evaluated THEN TRUE ELSE self.metrics,
         importance |-> IF status = "ok" THEN TRUE ELSE self.importance,
         status |-> status,
         cols |-> prep.cols,
         n |-> prep.n]

(* ModelTrainer.save_model(): [model_file, meta_file, status] *)
save_model(self, files, now) ==
    IF self.model = NoModel
    THEN [model_file |-> files.model_file, meta_file |-> files.meta_file,
          status |-> "NotTrained"]
    ELSE LET written == [exists |-> TRUE, model |-> self.model,
                         encoders |-> self.encoders]
         IN  IF ~self.importance
             THEN \* self.feature_importance is None: .to_dict raises
                  [model_file |-> written, meta_file |-> files.meta_file,
                   status |-> "AttributeError"]
             ELSE [model_file |-> written,
                   meta_file |-> [exists |-> TRUE, trained_at |-> now],
                   status |-> "ok"]

Trainer == [model |-> t_model, encoders |-> t_encoders, metrics |-> t_metrics,
            importance |-> t_importance]

Files == [model_file |-> model_file, meta_file |-> meta_file]

(* ModelTrainer.train(df, remove_outliers_flag) *)
Train(df, flag) ==
    /\ out.op = "idle"
    /\ t_trains < MaxTrains
    /\ \E prep \in {train_prepare(Trainer, df, flag)} :
       \E raise_at \in IF prep.status = "ok" THEN RaisePoints ELSE {"none"},
          stump \in Stumps :
       \E r \in {train_fit(Trainer, prep, raise_at, stump)} :
           /\ t_model' = r.model
           /\ t_encoders' = r.encoders
           /\ t_metrics' = r.metrics
           /\ t_importance' = r.importance
           /\ t_returned' = (t_returned \/ r.status = "ok")
           /\ out' = Result("train", r.status, EmptyFrame, r.cols, << >>, << >>,
                            r.n, NaN)
    /\ t_trains' = t_trains + 1
    /\ UNCHANGED <<model_file, meta_file, clock, p_model, p_encoders, p_version>>

SaveModel ==
    /\ out.op = "idle"
    /\ clock < MaxClock
    /\ \E r \in {save_model(Trainer, Files, clock + 1)} :
           /\ model_file' = r.model_file
           /\ meta_file' = r.meta_file
           /\ clock' = IF r.status = "NotTrained" THEN clock ELSE clock + 1
           /\ out' = Result("save_model", r.status, EmptyFrame, << >>, << >>,
                            << >>, 0, NaN)
    /\ UNCHANGED <<t_model, t_encoders, t_metrics, t_importance, t_trains,
                   t_returned, p_model, p_encoders, p_version>>

-----------------------------------------------------------------------------
(* PricePredictor *)

NoVersion == [kind |-> "None", at |-> 0]
UnknownVersion == [kind |-> "unknown", at |-> 0]
Version(at) == [kind |-> "trained_at", at |-> at]

(* a load_metadata that fails like load_model when the file is absent *)
load_version_or_fail(files) ==
    IF files.meta_file.exists THEN Version(files.meta_file.trained_at)
    ELSE [kind |-> "ModelNotFound", at |-> 0]

(* ModelTrainer.load_metadata().get("trained_at", "unknown") *)
load_version(files) ==
    IF files.meta_file.exists THEN Version(files.meta_file.trained_at)
    ELSE UnknownVersion

(* a load that takes the model from the file and keeps the encoders the    *)
(* predictor had (what C12 rules out)                                      *)
load_model_alone(self, files) ==
    IF ~files.model_file.exists
    THEN [model |-> self.model, encoders |-> self.encoders,
          version |-> self.version, status |-> "ModelNotFound"]
    ELSE [model |-> files.model_file.model, encoders |-> self.encoders,
          version |-> load_version(files), status |-> "ok"]

(* PricePredictor.load_model on a predictor [model, encoders, version] *)
load_model(self, files) ==
    IF ~files.model_file.exists
    THEN [model |-> self.model, encoders |-> self.encoders,
          version |-> self.version, status |-> "ModelNotFound"]
    ELSE [model |-> files.model_file.model,
          encoders |-> files.model_file.encoders,
          version |-> load_version(files), status |-> "ok"]

(* the rate taken relative to the observed price (what C6 rules out) *)
discount_rate_of_actual(predicted_price, actual_price) ==
    FMul(FDiv(FSub(F(predicted_price), actual_price), actual_price), F(100))

(* (predicted_price - actual_price) / predicted_price * 100 *)
discount_rate(predicted_price, actual_price) ==
    FMul(FDiv(FSub(F(predicted_price), actual_price), F(predicted_price)), F(100))

(* X.fillna(0) *)
FillNa0(x) == IF IsNaN(x) THEN F(0) ELSE x

(* the result columns predict adds to one row of the feature frame, and   *)
(* x, the row of X passed to model.predict                                 *)
Score(model, cols, row) ==
    LET Scored(x) ==
            LET Priced(predicted_price) ==
                    [idx |-> row.idx,
                     x |-> x,
                     property_id |-> row.v["property_id"],
                     predicted_price |-> predicted_price,
                     actual_price |-> row.v["price"],
                     price_difference |->
                         FSub(F(predicted_price), row.v["price"]),
                     discount_rate |->
                         discount_rate(predicted_price, row.v["price"])]
            IN  Bind(AsTypeInt(ModelPredict(model, cols, x)), Priced)
    IN  Bind([c \in SeqToSet(cols) |-> FillNa0(row.v[c])], Scored)

(* PricePredictor.predict(properties_df), lines 50-74, on a predictor ld   *)
(* whose model is loaded                                                   *)
predict_loaded(ld, df) ==
    LET Fail(status, encoders, xcols) ==
            [model |-> ld.model, encoders |-> encoders, version |-> ld.version,
             status |-> status, cols |-> xcols, rows |-> << >>]
        Featured(res) ==
            LET Selected(cols) ==
                    IF PredictRaises(ld.model, cols)
                    THEN Fail("FeatureMismatch", res.encoders, cols)
                    ELSE [model |-> ld.model, encoders |-> res.encoders,
                          version |-> ld.version, status |-> "ok", cols |-> cols,
                          rows |-> [i \in DOMAIN res.df.rows |->
                                      Score(ld.model, cols, res.df.rows[i])]]
            IN  IF res.status # "ok" THEN Fail(res.status, res.encoders, << >>)
                ELSE Bind(available_cols(res.df), Selected)
    IN  Bind(create_features(ld.encoders, df), Featured)

(* a predict that scores with whatever the predictor holds, without the   *)
(* load of lines 47-48                                                     *)
predict_as_is(self, files, df) ==
    predict_loaded([model |-> self.model, encoders |-> self.encoders,
                    version |-> self.version, status |-> "ok"], df)

(* PricePredictor.predict(properties_df): the predictor's fields after     *)
(* the call, [status, cols, rows]                                          *)
predict(self, files, df) ==
    LET Loaded(ld) ==
            IF ld.status # "ok"
            THEN [model |-> ld.model, encoders |-> ld.encoders,
                  version |-> ld.version, status |-> ld.status,
                  cols |-> << >>, rows |-> << >>]
            ELSE predict_loaded(ld, df)
    IN  Bind(IF self.model = NoModel THEN load_model(self, files)
             ELSE [model |-> self.model, encoders |-> self.encoders,
                   version |-> self.version, status |-> "ok"],
             Loaded)

(* a filter that excludes the boundary (what C8 rules out) *)
bargain_filter_strict(rows, min_discount_rate) ==
    LET Keep(r) == FGt(r.discount_rate, min_discount_rate)
    IN  SelectSeq(rows, Keep)

(* predictions_df[predictions_df["discount_rate"] >= min_discount_rate] *)
bargain_filter(rows, min_discount_rate) ==
    LET Keep(r) == FGe(r.discount_rate, min_discount_rate)
    IN  SelectSeq(rows, Keep)

Reorderings(rows) ==
    {[i \in DOMAIN rows |-> rows[f[i]]] :
        f \in {g \in [DOMAIN rows -> DOMAIN rows] :
                 \A i, j \in DOMAIN rows : i # j => g[i] # g[j]}}

(* DataFrame.sort_values("discount_rate", ascending=False): the default    *)
(* kind is "quicksort", which is not stable, so rows with equal keys come  *)
(* out in an order the build decides.  The set of possible results.        *)
sort_values_descending(rows) ==
    {s \in Reorderings(rows) :
        \A i, j \in DOMAIN s :
            i < j => FGe(s[i].discount_rate, s[j].discount_rate)}

(* int(x) of a float: ValueError on NaN, OverflowError on an infinity *)
IntRaises(x) == ~IsFinite(x)

(* one record of create_prediction_records *)
Record(row, version) ==
    [property_id |-> row.property_id,
     predicted_price |-> row.predicted_price,
     actual_price |-> AsTypeInt(row.actual_price),
     price_difference |-> AsTypeInt(row.price_difference),
     discount_rate |-> row.discount_rate,
     model_version |-> version]

(* PricePredictor.create_prediction_records(predictions_df): [status, rows] *)
create_prediction_records(self, rows, now) ==
    LET version == IF self.version = NoVersion THEN Version(now) ELSE self.version
    IN  IF \E i \in DOMAIN rows :
               IntRaises(rows[i].actual_price) \/ IntRaises(rows[i].price_difference)
        THEN [status |-> "ValueError", rows |-> << >>]
        ELSE [status |-> "ok",
              rows |-> [i \in DOMAIN rows |-> Record(rows[i], version)]]

Predictor == [model |-> p_model, encoders |-> p_encoders, version |-> p_version]

trainerVars == <<t_model, t_encoders, t_metrics, t_importance, t_trains, t_returned>>

LoadModel ==
    /\ out.op = "idle"
    /\ \E r \in {load_model(Predictor, Files)} :
           /\ p_model' = r.model
           /\ p_encoders' = r.encoders
           /\ p_version' = r.version
           /\ out' = Result("load_model", r.status, EmptyFrame, << >>, << >>,
                            << >>, 0, NaN)
    /\ UNCHANGED <<trainerVars, model_file, meta_file, clock>>

Predict(df) ==
    /\ out.op = "idle"
    /\ \E r \in {predict(Predictor, Files, df)} :
           /\ p_model' = r.model
           /\ p_encoders' = r.encoders
           /\ p_version' = r.version
           /\ out' = Result("predict", r.status, df, r.cols, r.rows, r.rows, 0, NaN)
    /\ UNCHANGED <<trainerVars, model_file, meta_file, clock>>

(* PricePredictor.find_bargain_properties(properties_df, min_discount_rate) *)
FindBargainProperties(df, min_discount_rate) ==
    /\ out.op = "idle"
    /\ \E r \in {predict(Predictor, Files, df)} :
           /\ p_model' = r.model
           /\ p_encoders' = r.encoders
           /\ p_version' = r.version
           /\ \E sorted \in sort_values_descending(
                                bargain_filter(r.rows, min_discount_rate)) :
                out' = Result("find_bargain_properties", r.status, df, r.cols,
                              r.rows, sorted, 0, min_discount_rate)
    /\ UNCHANGED <<trainerVars, model_file, meta_file, clock>>

CreatePredictionRecords ==
    /\ out.op \in {"predict", "find_bargain_properties"}
    /\ out.status = "ok"
    /\ \E r \in {create_prediction_records(Predictor, out.rows, clock)} :
           out' = Result("create_prediction_records", r.status, out.arg,
                         << >>, out.scored, r.rows, 0, NaN)
    /\ UNCHANGED <<trainerVars, model_file, meta_file, clock, p_model,
                   p_encoders, p_version>>

(* the caller drops the result of the last call *)
Return ==
    /\ out.op # "idle"
    /\ out' = Idle
    /\ UNCHANGED <<trainerVars, model_file, meta_file, clock, p_model,
                   p_encoders, p_version>>

(* The banding of one listing's values *)

StationValues ==
    {NaN, F(0), F(1), F(5), Norm(50001, 10000), F(10), F(11), F(15), F(16),
     PosInf}

AgeValues ==
    {NaN, F(0), F(1), F(5), F(6), F(10), F(20), F(21), F(30), F(31)}

AreaValues == {NaN, F(0), F(40), F(41), F(60), F(80), F(81)}

BandedListing(d, a, f) ==
    [MkListing(F(4), a, "Tokyo") EXCEPT !.station_distance = d, !.floor_area = f]

NoBands == [done |-> FALSE, station_distance |-> NaN, building_age |-> NaN,
            floor_area |-> NaN, station_distance_category |-> NA,
            age_category |-> NA, area_category |-> NA]

BandsInit == bands = NoBands

(* _create_derived_features on a frame of one listing *)
DeriveBands(d, a, f) ==
    \E res \in {create_derived_features(
                    Frame(AllColumns, <<[l |-> BandedListing(d, a, f), n |-> 1]>>))} :
        bands' = [done |-> TRUE, station_distance |-> d, building_age |-> a,
                  floor_area |-> f,
                  station_distance_category |->
                      res.rows[1].v["station_distance_category"],
                  age_category |-> res.rows[1].v["age_category"],
                  area_category |-> res.rows[1].v["area_category"]]

-----------------------------------------------------------------------------
(* BaseScraper.fetch_html: one request, and on a RequestException a longer *)
(* sleep and the same call again with retries + 1                          *)
max_retries == 3

FetchUrls == {"search", "detail"}

(* requests.RequestException as session.get or raise_for_status raises it *)
RequestFailures == {"HTTPError", "ConnectionError", "Timeout"}

RequestOutcomes == {"ok"} \cup RequestFailures

ResponseText(url) == [kind |-> "text", of |-> url]

FetchNone == [kind |-> "None", of |-> ""]

NoFetch == [pc |-> "idle", url |-> "", retries |-> 0, requests |-> << >>,
            result |-> [kind |-> "unset", of |-> ""]]

FetchInit == fetch = NoFetch

fetchRest == <<pipeVars, feVars, fe_prep, ro, ioVars, dbVars, bands, app>>

(* the call fetch_html(url), retries = 0 *)
FetchHtml(url) ==
    /\ fetch.pc \in {"idle", "returned"}
    /\ fetch' = [NoFetch EXCEPT !.pc = "get", !.url = url]
    /\ UNCHANGED fetchRest

ShouldRetryOnceMore(retries) == retries <= max_retries

ShouldRetry(retries) == retries < max_retries

(* session.get and raise_for_status, and the except branch *)
FetchGet(outcome) ==
    /\ fetch.pc = "get"
    /\ fetch' = [fetch EXCEPT
            !.requests = Append(@, outcome),
            !.pc = IF outcome = "ok" THEN "sleep"
                   ELSE IF ShouldRetry(fetch.retries) THEN "backoff"
                   ELSE "returned",
            !.result = IF outcome # "ok" /\ ~ShouldRetry(fetch.retries)
                       THEN FetchNone ELSE @]
    /\ UNCHANGED fetchRest

(* time.sleep(request_interval) and return response.text *)
FetchSleep ==
    /\ fetch.pc = "sleep"
    /\ fetch' = [fetch EXCEPT !.pc = "returned",
                              !.result = ResponseText(fetch.url)]
    /\ UNCHANGED fetchRest

(* time.sleep(request_interval * 2) and fetch_html(url, retries + 1), *)
(* whose return value is returned as it is                            *)
FetchBackoff ==
    /\ fetch.pc = "backoff"
    /\ fetch' = [fetch EXCEPT !.pc = "get", !.retries = @ + 1]
    /\ UNCHANGED fetchRest

(* a step of the call in progress *)
FetchStep ==
    \/ \E outcome \in RequestOutcomes : FetchGet(outcome)
    \/ FetchSleep
    \/ FetchBackoff

-----------------------------------------------------------------------------
(* app.py: every widget event reruns main() from the top; st.button is    *)
(* True only in the rerun its own click caused, and a button exists on    *)
(* the page only if the last run reached its st.button call               *)
AppButtons == {"scrape", "train", "predict"}

(* the sidebar's minimum discount rate slider: default and one step up *)
AppRates == {20, 25}

(* events of the user: a click on a button, or a move of the slider *)
AppEvents == AppButtons \cup {"slider"}

(* listings a data acquisition run may leave in the store *)
AppCounts == 99..101

AppTrainOutcomes == {"trained", "raises"}

(* st.button(label) in the run that the event `clicked` caused *)
Button(label, clicked) == clicked = label

(* show_bargain_properties *)
show_bargain_properties(a) ==
    IF ~a.model_saved THEN "warning"
    ELSE IF a.written = 0 THEN "no_rows"
    ELSE "rows"

(* show_data_acquisition: the listings in the store after it *)
show_data_acquisition(a, clicked) ==
    IF Button("scrape", clicked) /\ a.count + 1 \in AppCounts
    THEN a.count + 1 ELSE a.count

(* show_model_training on a store of property_count listings: the tab, *)
(* the buttons it rendered, and what it did to the model file and the  *)
(* predictions table                                                   *)
show_model_training(a, property_count, clicked, outcome) ==
    IF property_count < 100
    THEN [tab |-> "insufficient", shown |-> {}, model_saved |-> a.model_saved,
          written |-> a.written]
    ELSE IF Button("train", clicked)
    THEN IF outcome = "raises"
         THEN [tab |-> "error", shown |-> {"train"},
               model_saved |-> a.model_saved, written |-> a.written]
         ELSE IF Button("predict", clicked)
         THEN [tab |-> "predicted", shown |-> {"train", "predict"},
               model_saved |-> TRUE, written |-> a.written + property_count]
         ELSE [tab |-> "trained", shown |-> {"train", "predict"},
               model_saved |-> TRUE, written |-> a.written]
    ELSE [tab |-> "ready", shown |-> {"train"}, model_saved |-> a.model_saved,
          written |-> a.written]

(* main(): the sidebar, then the tabs in order *)
main(a, clicked, rate, outcome) ==
    LET count == show_data_acquisition(a, clicked)
        training == show_model_training(a, count, clicked, outcome)
    IN  [count |-> count,
         rate |-> rate,
         bargains |-> show_bargain_properties(a),
         training |-> training.tab,
         shown |-> {"scrape"} \cup training.shown,
         model_saved |-> training.model_saved,
         written |-> training.written,
         click |-> "none"]

(* the page after the first run on a store one listing short, no model file *)
AppInit ==
    app = [count |-> 99, rate |-> 20, bargains |-> "warning",
           training |-> "insufficient", shown |-> {"scrape"},
           model_saved |-> FALSE, written |-> 0, click |-> "none"]

appRest == <<pipeVars, feVars, fe_prep, ro, ioVars, dbVars, bands, fetch>>

(* the user clicks a button that is on the page, or moves the slider *)
AppClick(event) ==
    /\ app.click = "none"
    /\ event \in app.shown \cup {"slider"}
    /\ app' = [app EXCEPT !.click = event]
    /\ UNCHANGED appRest

(* the rerun the pending event causes *)
AppRerun(rate, outcome) ==
    /\ app.click # "none"
    /\ IF app.click = "slider" THEN rate # app.rate ELSE rate = app.rate
    /\ app' = main(app, app.click, rate, outcome)
    /\ UNCHANGED appRest

(* remove_outliers on its own *)

OutlierListings ==
    {MkListing(price, F(3), "Tokyo") : price \in {NaN, F(4), F(5), F(8)}}

OutlierFrames ==
    {Frame(AllColumns, items) :
        items \in UNION {[1..k -> [l : OutlierListings, n : {1, 9}]] :
                            k \in 1..MaxOutlierRows}}

NoOutlierCall == [df |-> EmptyFrame, res |-> EmptyFrame, done |-> FALSE]

(* remove_outliers(df, "price", n_std=3.0) *)
RemoveOutliers(df) ==
    /\ ro' = [df |-> df, res |-> remove_outliers(df, "price"), done |-> TRUE]
    /\ UNCHANGED <<pipeVars, feVars, fe_prep, ioVars, dbVars, moreVars>>


-----------------------------------------------------------------------------
(* DatabaseManager: the properties and predictions tables.                 *)
(* A time is [day, sec]: the calendar day and the time of that day.  A     *)
(* timestamp as text is <<day, separator, sec>>: SQLite and Python write   *)
(* the date first and the time after one separator character.              *)

DBListings == {1, 2}

DBPrices == {4, 8}

DBPredictedPrices == {5}

DBTimes == [day : 0..MaxDay, sec : {0, 1}]

(* CURRENT_TIMESTAMP: "YYYY-MM-DD HH:MM:SS" *)
CurrentTimestamp(t) == <<t.day, " ", t.sec>>

(* datetime.isoformat(): "YYYY-MM-DDTHH:MM:SS.ffffff" *)
IsoFormat(t) == <<t.day, "T", t.sec>>

(* code point of a separator character *)
Ord(c) == IF c = " " THEN 32 ELSE 84

(* a comparison of the two times themselves *)
TimeLess(a, b) ==
    \/ a[1] < b[1]
    \/ a[1] = b[1] /\ a[3] < b[3]

(* a < b for two TEXT values: bytes compared from the left *)
TextLess(a, b) ==
    \/ a[1] < b[1]
    \/ a[1] = b[1] /\ Ord(a[2]) < Ord(b[2])
    \/ a[1] = b[1] /\ Ord(a[2]) = Ord(b[2]) /\ a[3] < b[3]

NoProperty == [present |-> FALSE, price |-> 0, scraped_at |-> <<0, " ", 0>>]

NoResult == [asked |-> FALSE, min_rate |-> NaN, rows |-> << >>]

NoDBCall == [op |-> "none", arg |-> << >>, ret |-> 0]

DBInit ==
    /\ db_properties = [l \in DBListings |-> NoProperty]
    /\ db_predictions = << >>
    /\ db_seq = 0
    /\ db_now = [day |-> 0, sec |-> 0]
    /\ db_call = NoDBCall
    /\ db_result = NoResult

(* the two tables and sqlite_sequence *)
Store == [properties |-> db_properties, predictions |-> db_predictions,
          seq |-> db_seq]

(* the records create_prediction_records makes of the stored listings;     *)
(* one without a model_version stands for a record the table refuses       *)
ScoringRecords(properties, versions) ==
    {[property_id |-> l,
      predicted_price |-> pp,
      actual_price |-> properties[l].price,
      discount_rate |-> discount_rate(pp, F(properties[l].price)),
      model_version |-> mv] :
        l \in {k \in DBListings : properties[k].present},
        pp \in DBPredictedPrices, mv \in versions}

(* INSERT OR REPLACE INTO properties: the row of the same property_id, if  *)
(* any, is deleted and the new one written; scraped_at is not among the    *)
(* columns given and takes its default                                     *)
insert_property(store, property_data, now) ==
    [store EXCEPT !.properties[property_data.property_id] =
        [present |-> TRUE, price |-> property_data.price,
         scraped_at |-> CurrentTimestamp(now)]]

(* the INSERT raises (IntegrityError): a NOT NULL column is NULL *)
InsertRaises(prediction_data) ==
    \/ prediction_data.model_version = NA
    \/ IsNaN(prediction_data.discount_rate)

(* an insert that replaces the record the listing already has *)
insert_prediction_replacing(store, prediction_data) ==
    LET Other(pr) == pr.property_id # prediction_data.property_id
    IN  IF InsertRaises(prediction_data)
        THEN [store |-> store, ok |-> FALSE]
        ELSE [store |->
                  [store EXCEPT
                      !.seq = @ + 1,
                      !.predictions =
                          Append(SelectSeq(@, Other),
                                 [id |-> store.seq + 1,
                                  property_id |-> prediction_data.property_id,
                                  predicted_price |-> prediction_data.predicted_price,
                                  actual_price |-> prediction_data.actual_price,
                                  discount_rate |-> prediction_data.discount_rate])],
              ok |-> TRUE]

(* insert_prediction: INSERT INTO predictions, id is AUTOINCREMENT and     *)
(* predicted_at the time of the insert, so a later row has the larger id   *)
(* and is the more recent; an exception is caught and gives False          *)
insert_prediction(store, prediction_data) ==
    IF InsertRaises(prediction_data)
    THEN [store |-> store, ok |-> FALSE]
    ELSE [store |->
              [store EXCEPT
                  !.seq = @ + 1,
                  !.predictions =
                      Append(@, [id |-> store.seq + 1,
                                 property_id |-> prediction_data.property_id,
                                 predicted_price |-> prediction_data.predicted_price,
                                 actual_price |-> prediction_data.actual_price,
                                 discount_rate |-> prediction_data.discount_rate])],
          ok |-> TRUE]

(* a bulk insert that gives up at the first record that fails *)
RECURSIVE bulk_insert_until_failure(_, _)
bulk_insert_until_failure(store, predictions) ==
    IF predictions = << >> THEN [store |-> store, success_count |-> 0]
    ELSE LET r == insert_prediction(store, Head(predictions))
         IN  IF ~r.ok THEN [store |-> store, success_count |-> 0]
             ELSE LET rest == bulk_insert_until_failure(r.store, Tail(predictions))
                  IN  [store |-> rest.store,
                       success_count |-> rest.success_count + 1]

(* bulk_insert_predictions: [store, success_count] *)
RECURSIVE bulk_insert_predictions(_, _)
bulk_insert_predictions(store, predictions) ==
    IF predictions = << >> THEN [store |-> store, success_count |-> 0]
    ELSE LET r == insert_prediction(store, Head(predictions))
             rest == bulk_insert_predictions(r.store, Tail(predictions))
         IN  [store |-> rest.store,
              success_count |-> rest.success_count + (IF r.ok THEN 1 ELSE 0)]

(* the SELECT of get_bargain_properties: every row of predictions joined   *)
(* to its property, WHERE discount_rate >= ?, ORDER BY discount_rate DESC  *)
(* (rows with equal rates in an order the engine decides).  The set of     *)
(* possible results.                                                       *)
get_bargain_properties(store, min_discount_rate) ==
    LET Keep(pr) == /\ store.properties[pr.property_id].present
                    /\ FGe(pr.discount_rate, min_discount_rate)
        kept == SelectSeq(store.predictions, Keep)
        joined == [i \in DOMAIN kept |->
                     [id |-> kept[i].id,
                      property_id |-> kept[i].property_id,
                      price |-> store.properties[kept[i].property_id].price,
                      predicted_price |-> kept[i].predicted_price,
                      discount_rate |-> kept[i].discount_rate]]
    IN  sort_values_descending(joined)

(* delete_old_data(days): [store, deleted_count].  The cutoff is given to  *)
(* the DELETE as the text of datetime.now() - timedelta(days)              *)
delete_old_data(store, now, days) ==
    LET cutoff_date == IsoFormat([day |-> now.day - days, sec |-> now.sec])
        Old(l) == /\ store.properties[l].present
                  /\ TextLess(store.properties[l].scraped_at, cutoff_date)
        properties == [l \in DBListings |->
                         IF Old(l) THEN NoProperty ELSE store.properties[l]]
        Kept(pr) == properties[pr.property_id].present
    IN  [store |-> [store EXCEPT !.properties = properties,
                                 !.predictions = SelectSeq(@, Kept)],
         deleted_count |-> Cardinality({l \in DBListings : Old(l)})]

dbRest == <<pipeVars, feVars, fe_prep, ro, ioVars, moreVars>>

(* DatabaseManager.insert_property(property_data) *)
DBInsertProperty(property_data) ==
    /\ \E s \in {insert_property(Store, property_data, db_now)} :
           db_properties' = s.properties
    /\ db_call' = [op |-> "insert_property", arg |-> << >>, ret |-> 1]
    /\ db_result' = NoResult
    /\ UNCHANGED <<db_predictions, db_seq, db_now, dbRest>>

(* DatabaseManager.insert_prediction(prediction_data) *)
DBInsertPrediction(prediction_data) ==
    /\ db_seq < MaxRecords
    /\ \E r \in {insert_prediction(Store, prediction_data)} :
           /\ db_predictions' = r.store.predictions
           /\ db_seq' = r.store.seq
           /\ db_call' = [op |-> "insert_prediction", arg |-> <<prediction_data>>,
                          ret |-> IF r.ok THEN 1 ELSE 0]
    /\ db_result' = NoResult
    /\ UNCHANGED <<db_properties, db_now, dbRest>>

(* DatabaseManager.bulk_insert_predictions(predictions) *)
DBBulkInsertPredictions(predictions) ==
    /\ db_seq + Len(predictions) <= MaxRecords
    /\ \E r \in {bulk_insert_predictions(Store, predictions)} :
           /\ db_predictions' = r.store.predictions
           /\ db_seq' = r.store.seq
           /\ db_call' = [op |-> "bulk_insert_predictions", arg |-> predictions,
                          ret |-> r.success_count]
    /\ db_result' = NoResult
    /\ UNCHANGED <<db_properties, db_now, dbRest>>

(* DatabaseManager.get_bargain_properties(min_discount_rate) *)
DBGetBargainProperties(min_discount_rate) ==
    /\ \E rows \in get_bargain_properties(Store, min_discount_rate) :
           db_result' = [asked |-> TRUE, min_rate |-> min_discount_rate,
                         rows |-> rows]
    /\ db_call' = [op |-> "get_bargain_properties", arg |-> << >>, ret |-> 0]
    /\ UNCHANGED <<db_properties, db_predictions, db_seq, db_now, dbRest>>

(* DatabaseManager.delete_old_data(days) *)
DBDeleteOldData(days) ==
    /\ \E r \in {delete_old_data(Store, db_now, days)} :
           /\ db_properties' = r.store.properties
           /\ db_predictions' = r.store.predictions
           /\ db_call' = [op |-> "delete_old_data", arg |-> <<days>>,
                          ret |-> r.deleted_count]
    /\ db_result' = NoResult
    /\ UNCHANGED <<db_seq, db_now, dbRest>>

(* time passes: later the same day, or the next morning *)
DBTick ==
    /\ \/ db_now.sec = 0 /\ db_now' = [db_now EXCEPT !.sec = 1]
       \/ db_now.sec = 1 /\ db_now.day < MaxDay
                         /\ db_now' = [day |-> db_now.day + 1, sec |-> 0]
    /\ UNCHANGED <<db_properties, db_predictions, db_seq, db_call, db_result,
                   dbRest>>

-----------------------------------------------------------------------------
(* save_model and load_model as concurrent processes on the two paths.     *)
(* Each process of Writers holds a trained ModelTrainer and runs           *)
(* save_model once; its pickle is named by the process and reaches the     *)
(* file in two write calls (a buffered file object flushes whenever its    *)
(* buffer fills).  One more process runs PricePredictor.load_model and     *)
(* create_prediction_records, over and over.  A file is [exists, bytes]:   *)
(* bytes[k] is the process whose k-th half is at that place, 0 in a hole.  *)

Writers == {1, 2}

IdleReader == [pc |-> "idle", buf |-> << >>, model |-> 0, version |-> NoVersion,
               status |-> "none"]

IOInit ==
    /\ io_model = [exists |-> FALSE, bytes |-> << >>]
    /\ io_meta = [exists |-> FALSE, written |-> FALSE, trained_at |-> 0]
    /\ io_writer = [w \in Writers |-> [pc |-> "idle", now |-> 0]]
    /\ io_reader = IdleReader
    /\ io_clock = 0

(* f.write at offset k of a file object of process w *)
Put(bytes, k, w) ==
    [i \in 1..(IF Len(bytes) < k THEN k ELSE Len(bytes)) |->
        IF i = k THEN w ELSE IF i <= Len(bytes) THEN bytes[i] ELSE 0]

(* save_model line 197: open(model_path, "wb") creates or truncates *)
IOOpenModel(w) ==
    /\ io_writer[w].pc = "idle"
    /\ io_model' = [exists |-> TRUE, bytes |-> << >>]
    /\ io_writer' = [io_writer EXCEPT ![w].pc = "model_open"]
    /\ UNCHANGED <<io_meta, io_reader, io_clock>>

(* save_model lines 198-204: pickle.dump, one write call at a time *)
IOWriteModel(w) ==
    /\ io_writer[w].pc \in {"model_open", "model_half"}
    /\ \E k \in {IF io_writer[w].pc = "model_open" THEN 1 ELSE 2} :
           /\ io_model' = [io_model EXCEPT !.bytes = Put(io_model.bytes, k, w)]
           /\ io_writer' = [io_writer EXCEPT
                               ![w].pc = IF k = 1 THEN "model_half"
                                         ELSE "model_written"]
    /\ UNCHANGED <<io_meta, io_reader, io_clock>>

(* save_model lines 207-214: datetime.now(), open(metadata_path, "w") *)
IOOpenMeta(w) ==
    /\ io_writer[w].pc = "model_written"
    /\ io_clock' = io_clock + 1
    /\ io_meta' = [exists |-> TRUE, written |-> FALSE, trained_at |-> 0]
    /\ io_writer' = [io_writer EXCEPT ![w] = [pc |-> "meta_open",
                                              now |-> io_clock + 1]]
    /\ UNCHANGED <<io_model, io_reader>>

(* save_model line 215: json.dump and close *)
IOWriteMeta(w) ==
    /\ io_writer[w].pc = "meta_open"
    /\ io_meta' = [exists |-> TRUE, written |-> TRUE,
                   trained_at |-> io_writer[w].now]
    /\ io_writer' = [io_writer EXCEPT ![w].pc = "done"]
    /\ UNCHANGED <<io_model, io_reader, io_clock>>

(* ModelTrainer.load_model lines 233-236: exists() and open *)
IOCheckModel ==
    /\ io_reader.pc = "idle"
    /\ io_reader' = IF io_model.exists
                    THEN [io_reader EXCEPT !.pc = "reading"]
                    ELSE [io_reader EXCEPT !.pc = "failed",
                                           !.status = "ModelNotFound"]
    /\ UNCHANGED <<io_model, io_meta, io_writer, io_clock>>

(* ModelTrainer.load_model line 237: pickle.load, one read call at a time. *)
(* A stream that ends early or holds halves of two pickles is not a        *)
(* complete artifact: status "partial"                                     *)
IOReadModel ==
    /\ io_reader.pc = "reading"
    /\ \E k \in {Len(io_reader.buf) + 1} :
         io_reader' =
           IF Len(io_model.bytes) < k
           THEN [io_reader EXCEPT !.pc = "failed", !.status = "partial"]
           ELSE IF k = 1
           THEN [io_reader EXCEPT !.buf = <<io_model.bytes[1]>>]
           ELSE IF io_reader.buf[1] # 0 /\ io_model.bytes[2] = io_reader.buf[1]
           THEN [io_reader EXCEPT !.buf = Append(@, io_model.bytes[2]),
                                  !.model = io_model.bytes[2],
                                  !.pc = "model_loaded"]
           ELSE [io_reader EXCEPT !.buf = Append(@, io_model.bytes[2]),
                                  !.pc = "failed", !.status = "partial"]
    /\ UNCHANGED <<io_model, io_meta, io_writer, io_clock>>

(* PricePredictor.load_model lines 29-30: load_metadata and the version *)
IOReadMeta ==
    /\ io_reader.pc = "model_loaded"
    /\ io_reader' =
         IF ~io_meta.exists
         THEN [io_reader EXCEPT !.pc = "loaded", !.status = "ok",
                                !.version = UnknownVersion]
         ELSE IF ~io_meta.written
         THEN [io_reader EXCEPT !.pc = "failed", !.status = "JSONDecodeError"]
         ELSE [io_reader EXCEPT !.pc = "loaded", !.status = "ok",
                                !.version = Version(io_meta.trained_at)]
    /\ UNCHANGED <<io_model, io_meta, io_writer, io_clock>>

(* create_prediction_records line 97: the records carry self.model_version *)
IOCreateRecords ==
    /\ io_reader.pc = "loaded"
    /\ io_reader' = [io_reader EXCEPT !.pc = "recorded"]
    /\ UNCHANGED <<io_model, io_meta, io_writer, io_clock>>

(* PricePredictor(): the next load starts on a new predictor *)
IORestart ==
    /\ io_reader.pc \in {"failed", "recorded"}
    /\ io_reader' = IdleReader
    /\ UNCHANGED <<io_model, io_meta, io_writer, io_clock>>

-----------------------------------------------------------------------------
(* Specifications *)

PipeInit ==
    /\ t_model = NoModel
    /\ t_encoders = EmptyEncoders
    /\ t_metrics = FALSE
    /\ t_importance = FALSE
    /\ t_trains = 0
    /\ t_returned = FALSE
    /\ model_file = NoFile
    /\ meta_file = NoMeta
    /\ clock = 0
    /\ p_model = NoModel
    /\ p_encoders = EmptyEncoders
    /\ p_version = NoVersion
    /\ out = Idle

(* nothing has run yet: no remove_outliers call, no concurrent save or     *)
(* load, an empty predictions table                                        *)
MoreInit == BandsInit /\ FetchInit /\ AppInit

RestInit ==
    /\ MoreInit
    /\ ro = NoOutlierCall
    /\ IOInit
    /\ DBInit

Init == PipeInit /\ FEInit /\ RestInit

Next ==
    \/ \E df \in TrainFrames, flag \in BOOLEAN :
            Train(df, flag) /\ UNCHANGED sideVars
    \/ SaveModel /\ UNCHANGED sideVars
    \/ LoadModel /\ UNCHANGED sideVars
    \/ \E df \in ScoreFrames : Predict(df) /\ UNCHANGED sideVars
    \/ \E df \in ScoreFrames, m \in MinRates :
            FindBargainProperties(df, m) /\ UNCHANGED sideVars
    \/ CreatePredictionRecords /\ UNCHANGED sideVars
    \/ Return /\ UNCHANGED sideVars

Spec == Init /\ [][Next]_vars

(* ModelTrainer(): the trainer as constructed *)
NewTrainer == [model |-> NoModel, encoders |-> EmptyEncoders, metrics |-> FALSE,
               importance |-> FALSE]

(* A process that only scores (a later run of the application): a trainer   *)
(* and a predictor as constructed, and on disk what an earlier run left     *)
(* there, that is what one train call followed by save_model wrote (both    *)
(* files, the artifact alone, or nothing)                                   *)
ScoreInit ==
    /\ t_model = NoModel
    /\ t_encoders = EmptyEncoders
    /\ t_metrics = FALSE
    /\ t_importance = FALSE
    /\ t_trains = 0
    /\ t_returned = FALSE
    /\ \E df \in TrainFrames, flag \in BOOLEAN :
       \E prep \in {train_prepare(NewTrainer, df, flag)} :
       \E raise_at \in IF prep.status = "ok" THEN RaisePoints ELSE {"none"},
          stump \in Stumps :
       \E r \in {train_fit(NewTrainer, prep, raise_at, stump)} :
       \E saved \in {save_model(r, [model_file |-> NoFile, meta_file |-> NoMeta],
                                0)} :
           /\ model_file = saved.model_file
           /\ meta_file = saved.meta_file
    /\ clock = 0
    /\ p_model = NoModel
    /\ p_encoders = EmptyEncoders
    /\ p_version = NoVersion
    /\ out = Idle
    /\ FEInit
    /\ RestInit

NextScore ==
    \/ LoadModel /\ UNCHANGED sideVars
    \/ \E df \in ScoreFrames : Predict(df) /\ UNCHANGED sideVars
    \/ \E df \in ScoreFrames, m \in MinRates :
            FindBargainProperties(df, m) /\ UNCHANGED sideVars
    \/ CreatePredictionRecords /\ UNCHANGED sideVars
    \/ Return /\ UNCHANGED sideVars

SpecScore == ScoreInit /\ [][NextScore]_vars

(* training, saving and loading only *)
NextTrainer ==
    \/ \E df \in TrainFrames, flag \in BOOLEAN :
            Train(df, flag) /\ UNCHANGED sideVars
    \/ SaveModel /\ UNCHANGED sideVars
    \/ LoadModel /\ UNCHANGED sideVars
    \/ Return /\ UNCHANGED sideVars

SpecTrainer == Init /\ [][NextTrainer]_vars

(* the banding only *)
NextBands ==
    \E d \in StationValues, a \in AgeValues, f \in AreaValues :
        DeriveBands(d, a, f)
            /\ UNCHANGED <<pipeVars, feVars, fe_prep, ro, ioVars, dbVars, fetch, app>>

SpecBands == Init /\ [][NextBands]_vars

(* fetch_html calls one after another *)
NextFetch ==
    \/ \E url \in FetchUrls : FetchHtml(url)
    \/ FetchStep

SpecFetch == Init /\ [][NextFetch]_vars

(* a call in progress goes on: the request returns or raises within the *)
(* timeout, and the sleeps end                                           *)
SpecFetchLive == SpecFetch /\ WF_vars(FetchStep)

(* the presentation layer: clicks and the reruns they cause *)
AppReruns == \E rate \in AppRates, outcome \in AppTrainOutcomes : AppRerun(rate, outcome)

NextApp ==
    \/ \E event \in AppEvents : AppClick(event)
    \/ AppReruns

SpecApp == Init /\ [][NextApp]_vars

(* the server runs the script for every event it receives; the user may *)
(* stop clicking                                                        *)
SpecAppLive == SpecApp /\ WF_vars(AppReruns)

(* listings, scoring runs and the bargain query *)
NextDB ==
    \/ \E property_data \in [property_id : DBListings, price : DBPrices] :
            DBInsertProperty(property_data)
    \/ \E prediction_data \in ScoringRecords(db_properties, {"v1", NA}) :
            DBInsertPrediction(prediction_data)
    \/ \E k \in 1..2 :
       \E predictions \in [1..k -> ScoringRecords(db_properties, {"v1", NA})] :
            DBBulkInsertPredictions(predictions)
    \/ \E m \in MinRates : DBGetBargainProperties(m)

SpecDB == Init /\ [][NextDB]_vars

(* listings, scoring runs and the retention run, as time passes *)
NextRetention ==
    \/ \E property_data \in [property_id : DBListings, price : {4}] :
            DBInsertProperty(property_data)
    \/ \E prediction_data \in ScoringRecords(db_properties, {"v1"}) :
            DBInsertPrediction(prediction_data)
    \/ \E days \in {0, 1} : DBDeleteOldData(days)
    \/ DBTick

SpecRetention == Init /\ [][NextRetention]_vars

(* remove_outliers only *)
NextOutliers == \E df \in OutlierFrames : RemoveOutliers(df)

SpecOutliers == Init /\ [][NextOutliers]_vars

ioRest == <<pipeVars, feVars, fe_prep, ro, dbVars, moreVars>>

(* the concurrent processes *)
NextIO ==
    \/ \E w \in Writers : IOOpenModel(w) /\ UNCHANGED ioRest
    \/ \E w \in Writers : IOWriteModel(w) /\ UNCHANGED ioRest
    \/ \E w \in Writers : IOOpenMeta(w) /\ UNCHANGED ioRest
    \/ \E w \in Writers : IOWriteMeta(w) /\ UNCHANGED ioRest
    \/ IOCheckModel /\ UNCHANGED ioRest
    \/ IOReadModel /\ UNCHANGED ioRest
    \/ IOReadMeta /\ UNCHANGED ioRest
    \/ IOCreateRecords /\ UNCHANGED ioRest
    \/ IORestart /\ UNCHANGED ioRest

SpecIO == Init /\ [][NextIO]_vars

feRest == <<pipeVars, ro, ioVars, dbVars, moreVars>>

(* the feature engineer on its own *)
NextFE ==
    \/ FENew /\ UNCHANGED feRest
    \/ \E df \in FEFrames :
            FECreateFeatures(df) /\ UNCHANGED feRest
    \/ \E df \in PrepFrames :
            FEPrepareTrainingData(df) /\ UNCHANGED feRest

SpecFE == Init /\ [][NextFE]_vars

-----------------------------------------------------------------------------
(* Properties *)

(* an inference call (predict or find_bargain_properties) has just returned *)
Inference == out.op \in {"predict", "find_bargain_properties"}

(* ... and returned its frame *)
Scored == Inference /\ out.status = "ok"

(* C1: once the encoder state is loaded by the predictor, no predict or     *)
(* find_bargain_properties call changes it, whatever the batch contains.    *)
C1_InferenceKeepsEncoders ==
    [][(p_model # NoModel /\ out.op = "idle"
            /\ out'.op \in {"predict", "find_bargain_properties"})
        => p_encoders' = p_encoders]_vars

(* C2: the columns predict passes to the model are, in the same order, the *)
(* columns prepare_training_data returned for the fit of that model.       *)
C2_PredictColumnsAreFitColumns ==
    (Inference /\ out.status \in {"ok", "FeatureMismatch"})
        => out.cols = p_model.feature_name

(* two rows hold the same listing: the same value, or the same missing     *)
(* value, in every field                                                   *)
SameListing(v, w) == \A c \in AllColumns \ {"property_id"} : v[c] = w[c]

(* C3: two create_features calls made with the same encoder state give a   *)
(* listing with the same field values the same feature vector, whatever    *)
(* other listings are in each batch.                                       *)
C3_SameListingSameVector ==
    fe_call.res.status = "ok" =>
        \A other \in FEFrames :
            \E res \in {create_features(fe_call.before, other)} :
                res.status = "ok" =>
                    \A i \in DOMAIN fe_call.df.rows, j \in DOMAIN other.rows :
                        SameListing(fe_call.df.rows[i].v, other.rows[j].v) =>
                            \A k \in DOMAIN get_feature_columns :
                                fe_call.res.df.rows[i].v[get_feature_columns[k]]
                                    = res.df.rows[j].v[get_feature_columns[k]]

(* C4: create_features on a state in which a categorical feature is fitted, *)
(* with a batch holding a value of it never seen at fit, fails with         *)
(* UnknownCategory: no frame of codes comes back and the feature's fitted   *)
(* categories are what they were.                                           *)
C4_UnseenCategoryFails ==
    fe_call.res.status # "none" =>
        \E d \in {create_derived_features(clean_basic_features(fe_call.df))} :
            \A col \in (SeqToSet(label_encode_cols) \cap d.cols)
                            \cap DOMAIN fe_call.before :
                (\E k \in DOMAIN d.rows :
                        AsStr(d.rows[k].v[col]) \notin fe_call.before[col])
                    => /\ fe_call.res.status = "UnknownCategory"
                       /\ fe_call.res.df = EmptyFrame
                       /\ fe_call.res.encoders[col] = fe_call.before[col]
                       /\ fe_encoders[col] = fe_call.before[col]

(* a call on a fitted state met a prefecture it had not seen, and failed *)
C4_Witness ==
    /\ fe_call.res.status = "UnknownCategory"
    /\ "prefecture" \in DOMAIN fe_call.before
    /\ \E k \in DOMAIN fe_call.df.rows :
           fe_call.df.rows[k].v["prefecture"] \notin fe_call.before["prefecture"]

(* C5: for every scored listing with a non-zero predicted price, the        *)
(* discount rate is positive if and only if the observed price is below     *)
(* the predicted price.                                                     *)
C5_PositiveRateIffBelowPredicted ==
    Scored =>
        \A i \in DOMAIN out.scored :
            out.scored[i].predicted_price # 0 =>
                (FGt(out.scored[i].discount_rate, F(0))
                    <=> FLt(out.scored[i].actual_price,
                            F(out.scored[i].predicted_price)))

(* C6: for every scored listing with a non-zero predicted price,            *)
(* actual_price is the listing's observed price, price_difference is        *)
(* predicted_price - actual_price and discount_rate is                      *)
(* (predicted_price - actual_price) / predicted_price * 100; predicted      *)
(* 5,000,000 and actual 4,000,000 give the rate 20.                         *)
C6_ScoreColumns ==
    /\ discount_rate(5000000, F(4000000)) = F(20)
    /\ Scored =>
         /\ Len(out.scored) = Len(out.arg.rows)
         /\ \A i \in DOMAIN out.scored :
              \E r \in {out.scored[i]} :
                r.predicted_price # 0 =>
                  /\ r.actual_price = out.arg.rows[i].v["price"]
                  /\ r.price_difference = FSub(F(r.predicted_price), r.actual_price)
                  /\ r.discount_rate =
                        FMul(FDiv(FSub(F(r.predicted_price), r.actual_price),
                                  F(r.predicted_price)), F(100))

(* predict scored a listing priced 4 at 5: difference 1, rate 20 *)
C6_Witness ==
    /\ out.op = "predict" /\ out.status = "ok"
    /\ \E i \in DOMAIN out.scored :
           /\ out.scored[i].predicted_price = 5
           /\ out.arg.rows[i].v["price"] = F(4)
           /\ out.scored[i].price_difference = F(1)
           /\ out.scored[i].discount_rate = F(20)

(* a rate that is zero, NaN or an infinity *)
Unusable(rate) == rate = F(0) \/ ~IsFinite(rate)

(* C7: a listing whose predicted price is zero never carries a rate of     *)
(* zero, NaN or an infinity into the frame predict returns or into a       *)
(* prediction record, and is never in what find_bargain_properties returns. *)
C7_ZeroPredictionNotCarried ==
    /\ Scored =>
         \A i \in DOMAIN out.scored :
             out.scored[i].predicted_price = 0
                 => ~Unusable(out.scored[i].discount_rate)
    /\ (out.op = "find_bargain_properties" /\ out.status = "ok") =>
         \A i \in DOMAIN out.rows : out.rows[i].predicted_price # 0
    /\ (out.op = "create_prediction_records" /\ out.status = "ok") =>
         \A i \in DOMAIN out.rows :
             out.rows[i].predicted_price = 0
                 => ~Unusable(out.rows[i].discount_rate)

(* C8: find_bargain_properties(listings, m) returns exactly the scored      *)
(* listings whose rate is >= m (one at exactly m included), each once, in   *)
(* non-increasing order of rate.                                            *)
C8_BargainsAtLeastMin ==
    (out.op = "find_bargain_properties" /\ out.status = "ok") =>
        /\ \A i \in DOMAIN out.rows :
               /\ FGe(out.rows[i].discount_rate, out.min_rate)
               /\ \E j \in DOMAIN out.scored : out.scored[j] = out.rows[i]
        /\ \A j \in DOMAIN out.scored :
               FGe(out.scored[j].discount_rate, out.min_rate) =>
                   Cardinality({i \in DOMAIN out.rows :
                                   out.rows[i] = out.scored[j]}) = 1
        /\ \A i, j \in DOMAIN out.rows :
               i < j => FGe(out.rows[i].discount_rate, out.rows[j].discount_rate)

(* a batch with a listing at exactly the threshold, returned, and a        *)
(* listing below it, left out                                              *)
C8_Witness ==
    /\ out.op = "find_bargain_properties" /\ out.status = "ok"
    /\ \E i \in DOMAIN out.rows : out.rows[i].discount_rate = out.min_rate
    /\ \E j \in DOMAIN out.scored :
           /\ FLt(out.scored[j].discount_rate, out.min_rate)
           /\ \A i \in DOMAIN out.rows : out.rows[i] # out.scored[j]

(* C9: in the result of find_bargain_properties, listings with equal rate  *)
(* are in the relative order they had in the input batch.                  *)
C9_TiesKeepInputOrder ==
    (out.op = "find_bargain_properties" /\ out.status = "ok") =>
        \A i, j \in DOMAIN out.rows :
            (i < j /\ out.rows[i].discount_rate = out.rows[j].discount_rate)
                => out.rows[i].idx < out.rows[j].idx

(* C10: as long as no train call has returned successfully the trainer is  *)
(* Untrained (it holds no model), and save_model then fails with NotTrained *)
(* and writes neither the artifact file nor the metadata file.             *)
C10_FailedTrainLeavesUntrained ==
    ~t_returned =>
        /\ t_model = NoModel
        /\ ~model_file.exists
        /\ ~meta_file.exists
        /\ out.op = "save_model" => out.status = "NotTrained"

(* C11: a save_model running beside a load_model or another save_model     *)
(* never leaves halves of two saves in the artifact file, and no load ends *)
(* on a partially written artifact.                                        *)
C11_ArtifactPublishedWhole ==
    /\ \A i, j \in DOMAIN io_model.bytes :
           io_model.bytes[i] # 0 /\ io_model.bytes[i] = io_model.bytes[j]
    /\ io_reader.status # "partial"

(* C13: the model version a prediction record is tagged with is the        *)
(* trained_at of the save whose model the predictor loaded.                *)
C13_VersionOfLoadedArtifact ==
    io_reader.pc = "recorded" =>
        io_reader.version = Version(io_writer[io_reader.model].now)

(* the rows predict returns for df on a predictor holding (model, encoders) *)
PredictionsOf(model, encoders, df) ==
    predict_loaded([model |-> model, encoders |-> encoders,
                    version |-> NoVersion], df).rows

C14_InsufficientBelowMinimum ==
    [][(out'.op = "train" /\ out.op = "idle"
            /\ out'.status # "UnknownCategory") =>
          /\ (out'.status = "InsufficientData") <=> (out'.n < min_data_count)
          /\ out'.status = "InsufficientData" =>
                 /\ t_model' = t_model
                 /\ t_metrics' = t_metrics
                 /\ t_importance' = t_importance
          /\ out'.n >= min_data_count => out'.status \in RaisePoints \cup {"ok"}
      ]_vars

(* a train call that kept min_data_count - 1 rows failed *)
C14_Witness ==
    /\ out.op = "train" /\ out.status = "InsufficientData"
    /\ out.n = min_data_count - 1
    /\ t_model = NoModel

(* C15: remove_outliers keeps exactly the rows whose price p satisfies     *)
(* mean - 3 * std <= p <= mean + 3 * std, mean and std being the           *)
(* population mean and population standard deviation (divisor N) of the    *)
(* prices of the frame passed in; the rows kept keep their order.          *)
C15_WithinThreePopulationStd ==
    ro.done =>
        LET NotNaN(x) == ~IsNaN(x)
            N == CountRows(ro.df, "price", NotNaN)
            Val(v) == IF IsNaN(v["price"]) THEN F(0) ELSE v["price"]
            mean == FDiv(SumRows(ro.df, Val), F(N))
            Dev2(v) == IF IsNaN(v["price"]) THEN F(0)
                       ELSE FMul(FSub(v["price"], mean), FSub(v["price"], mean))
            var == FDiv(SumRows(ro.df, Dev2), F(N))
            Keep(v) ==
                /\ ~IsNaN(v["price"]) /\ ~IsNaN(mean) /\ ~IsNaN(var)
                /\ FLe(FMul(FSub(v["price"], mean), FSub(v["price"], mean)),
                       FMul(F(n_std * n_std), var))
        IN  ro.res = FilterRows(ro.df, Keep)

(* C16: at inference the value the model receives for a numeric field    *)
(* that is missing in a listing is 0, whatever the other listings of the   *)
(* batch hold (shown for building_age).                                    *)
C16_MissingNumericScoredAsZero ==
    (Scored /\ "building_age" \in out.arg.cols) =>
        \A i \in DOMAIN out.scored :
            IsNaN(out.arg.rows[i].v["building_age"]) =>
                out.scored[i].x["building_age"] = F(0)

(* C17: prepare_training_data returns the rows of the feature frame that  *)
(* have no missing selected feature and no missing price, in their order   *)
(* (X and y are those same rows); a row is dropped exactly when a selected *)
(* feature or the price is missing after derivation; when every row is     *)
(* dropped the result is empty and the call does not fail.                 *)
C17_DropsExactlyIncompleteRows ==
    fe_prep.res.status # "none" =>
        \A feat \in {create_features(fe_prep.before, fe_prep.df)} :
            /\ fe_prep.res.status = feat.status
            /\ feat.status = "ok" =>
                   \A cols \in {available_cols(feat.df)} :
                       LET Complete(r) ==
                               /\ ~IsNaN(r.v["price"])
                               /\ \A i \in DOMAIN cols : ~IsNaN(r.v[cols[i]])
                       IN  /\ fe_prep.res.cols = cols
                           /\ fe_prep.res.df.rows = SelectSeq(feat.df.rows, Complete)
                           /\ \A i \in DOMAIN fe_prep.res.df.rows :
                                  Complete(fe_prep.res.df.rows[i])

(* a batch of a priced listing and one without a price lost the second one *)
C17_Witness ==
    /\ fe_prep.res.status = "ok"
    /\ Len(fe_prep.df.rows) = 2
    /\ ~IsNaN(fe_prep.df.rows[1].v["price"])
    /\ IsNaN(fe_prep.df.rows[2].v["price"])
    /\ Len(fe_prep.res.df.rows) = 1
    /\ fe_prep.res.df.rows[1].idx = 1

(* C18: a predict (or find_bargain_properties) call on a predictor that   *)
(* holds no model loads the artifact and scores with the loaded model and  *)
(* encoders; when there is no artifact the call fails with ModelNotFound,  *)
(* returns no scores and leaves model, encoders and version unset.         *)
C18_PredictLoadsFirst ==
    [][(out.op = "idle" /\ p_model = NoModel
            /\ out'.op \in {"predict", "find_bargain_properties"}) =>
          IF ~model_file.exists
          THEN /\ out'.status = "ModelNotFound"
               /\ out'.scored = << >> /\ out'.rows = << >>
               /\ p_model' = NoModel
               /\ p_encoders' = EmptyEncoders
               /\ p_version' = NoVersion
          ELSE /\ out'.status # "ModelNotFound"
               /\ p_model' = model_file.model
               /\ p_version' = load_version(Files)
               /\ out'.status = "ok" =>
                      out'.scored = PredictionsOf(model_file.model,
                                                  model_file.encoders, out'.arg)
      ]_vars

(* a predict call found no artifact *)
C18_Witness ==
    /\ out.op = "predict" /\ out.status = "ModelNotFound"
    /\ p_model = NoModel /\ ~model_file.exists

(* C19: a load on a model path that does not exist fails with             *)
(* ModelNotFound and hands nothing to the caller; a metadata path that     *)
(* does not exist gives empty metadata (no trained_at) without failing;    *)
(* paths that exist give the model, the encoders and the trained_at that   *)
(* are in the files.                                                       *)
C19_LoadOfAbsentAndPresentPaths ==
    [][(out.op = "idle" /\ out'.op = "load_model") =>
          IF ~model_file.exists
          THEN /\ out'.status = "ModelNotFound"
               /\ UNCHANGED <<p_model, p_encoders, p_version>>
          ELSE /\ out'.status = "ok"
               /\ p_model' = model_file.model
               /\ p_encoders' = model_file.encoders
               /\ p_version' = IF meta_file.exists
                               THEN Version(meta_file.trained_at)
                               ELSE UnknownVersion
      ]_vars

(* a load found the artifact file and no metadata file *)
C19_Witness ==
    /\ out.op = "load_model" /\ out.status = "ok"
    /\ model_file.exists /\ ~meta_file.exists
    /\ p_model = model_file.model
    /\ p_version = UnknownVersion

(* C20: get_bargain_properties returns at most one row per listing, and  *)
(* a listing is returned exactly when its most recent prediction record    *)
(* has a discount rate of at least the threshold.                          *)
C20_OnlyLatestPredictionCounts ==
    db_result.asked =>
        /\ \A i, j \in DOMAIN db_result.rows :
               i # j => db_result.rows[i].property_id # db_result.rows[j].property_id
        /\ \A l \in DBListings :
               LET mine == {k \in DOMAIN db_predictions :
                               db_predictions[k].property_id = l}
                   latest == CHOOSE k \in mine : \A k2 \in mine : k2 <= k
               IN  (\E i \in DOMAIN db_result.rows :
                        db_result.rows[i].property_id = l)
                       <=> /\ mine # {}
                           /\ FGe(db_predictions[latest].discount_rate,
                                  db_result.min_rate)

(* C23: a station distance d with 0 < d <= 5 is banded very_close,        *)
(* 5 < d <= 10 close, 10 < d <= 15 medium and d > 15 far.                  *)
C23_StationBandsRightClosed ==
    LET d == bands.station_distance
        band == bands.station_distance_category
    IN  bands.done =>
            /\ (FLt(F(0), d) /\ FLe(d, F(5))) => band = "very_close"
            /\ (FLt(F(5), d) /\ FLe(d, F(10))) => band = "close"
            /\ (FLt(F(10), d) /\ FLe(d, F(15))) => band = "medium"
            /\ FLt(F(15), d) => band = "far"

(* a listing five minutes from the station was banded *)
C23_Witness ==
    /\ bands.done
    /\ bands.station_distance = F(5)
    /\ bands.station_distance_category = "very_close"

(* C26: every non-negative station_distance, building_age and floor_area *)
(* falls into a named band: a listing that has the value has the band.     *)
C26_EveryValueHasABand ==
    bands.done =>
        /\ FGe(bands.station_distance, F(0)) => bands.station_distance_category # NA
        /\ FGe(bands.building_age, F(0)) => bands.age_category # NA
        /\ FGe(bands.floor_area, F(0)) => bands.area_category # NA

(* C24: in a create_features call a listing whose value of an encoded     *)
(* categorical feature (raw or banded) is missing gets the code of the     *)
(* sentinel category of clean_basic_features.                              *)
C24_MissingCategoryIsSentinel ==
    fe_call.res.status = "ok" =>
        \A i \in DOMAIN fe_call.res.df.rows :
            \A k \in DOMAIN label_encode_cols :
                LET col == label_encode_cols[k]
                    missing ==
                        IF col \in fe_call.df.cols
                        THEN fe_call.df.rows[i].v[col] = NA
                        ELSE /\ col \in fe_call.res.df.cols
                             /\ fe_call.res.df.rows[i].v[col] = NA
                IN  missing =>
                        /\ Fumei \in fe_call.res.encoders[col]
                        /\ fe_call.res.df.rows[i].v[Encoded(col)]
                               = F(LabelCode(fe_call.res.encoders[col], Fumei))

(* C25: a train call that fails with InsufficientData leaves the         *)
(* trainer's encoder state as it was before the call.                      *)
C25_FailedTrainKeepsEncoders ==
    [][(out.op = "idle" /\ out'.op = "train"
            /\ out'.status = "InsufficientData") => t_encoders' = t_encoders
      ]_vars

(* C21: insert_property, insert_prediction and bulk_insert_predictions    *)
(* leave every prediction record that exists as it is, in its place; a     *)
(* bulk insert adds one record for each record of the run the table        *)
(* accepts, after the earlier ones.                                        *)
C21_PredictionsAppendOnly ==
    [][db_call'.op \in {"insert_property", "insert_prediction",
                        "bulk_insert_predictions"} =>
          /\ Len(db_predictions') >= Len(db_predictions)
          /\ \A k \in DOMAIN db_predictions : db_predictions'[k] = db_predictions[k]
          /\ db_call'.op = "bulk_insert_predictions" =>
                 LET Accepted(d) == ~InsertRaises(d)
                     run == SelectSeq(db_call'.arg, Accepted)
                 IN  /\ Len(db_predictions') = Len(db_predictions) + Len(run)
                     /\ \A i \in DOMAIN run :
                            LET pr == db_predictions'[Len(db_predictions) + i]
                            IN  /\ pr.property_id = run[i].property_id
                                /\ pr.discount_rate = run[i].discount_rate
                                /\ pr.predicted_price = run[i].predicted_price
      ]_vars

(* a second scoring run wrote a record for a listing that already had one *)
C21_Witness ==
    /\ db_call.op = "bulk_insert_predictions"
    /\ db_call.ret = 1
    /\ Len(db_predictions) = 2
    /\ db_predictions[1].property_id = db_predictions[2].property_id
    /\ db_predictions[1].discount_rate # db_predictions[2].discount_rate

(* C22: bulk_insert_predictions tries every record of the list in order;  *)
(* a record the table refuses stops nothing and raises nothing, the        *)
(* records after it are stored, and the count returned is the number of    *)
(* records the call stored.                                                *)
C22_BulkInsertBestEffort ==
    [][db_call'.op = "bulk_insert_predictions" =>
          LET Accepted(d) == ~InsertRaises(d)
              run == SelectSeq(db_call'.arg, Accepted)
          IN  /\ db_call'.ret = Len(run)
              /\ db_call'.ret = Len(db_predictions') - Len(db_predictions)
              /\ \A i \in DOMAIN run :
                     db_predictions'[Len(db_predictions) + i].property_id
                         = run[i].property_id
      ]_vars

(* a bulk insert whose first record was refused stored its second one *)
C22_Witness ==
    /\ db_call.op = "bulk_insert_predictions"
    /\ Len(db_call.arg) = 2
    /\ InsertRaises(db_call.arg[1])
    /\ ~InsertRaises(db_call.arg[2])
    /\ db_call.ret = 1
    /\ db_predictions # << >>
    /\ db_predictions[Len(db_predictions)].property_id = db_call.arg[2].property_id

(* C27: every row get_bargain_properties returns shows a discount rate    *)
(* that is (predicted_price - price) / predicted_price * 100 for the price *)
(* the row shows, the one stored for the listing now.                      *)
C27_BargainRowsUseStoredPrice ==
    db_result.asked =>
        \A i \in DOMAIN db_result.rows :
            db_result.rows[i].discount_rate
                = discount_rate(db_result.rows[i].predicted_price,
                                F(db_result.rows[i].price))

(* C29: when delete_old_data(days) has returned, every prediction record  *)
(* refers to a stored listing, every listing captured at or after the      *)
(* cutoff (now - days) and its prediction records are as before, and the   *)
(* number returned is the number of listings deleted.                      *)
C29_RetentionKeepsRecentListings ==
    [][(db_call'.op = "delete_old_data" /\ db_now' = db_now) =>
          LET cutoff == <<db_now.day - db_call'.arg[1], "T", db_now.sec>>
              Of(l, predictions) ==
                  LET Mine(pr) == pr.property_id = l
                  IN  SelectSeq(predictions, Mine)
          IN  /\ \A k \in DOMAIN db_predictions' :
                     db_properties'[db_predictions'[k].property_id].present
              /\ \A l \in DBListings :
                     (/\ db_properties[l].present
                      /\ ~TimeLess(db_properties[l].scraped_at, cutoff)) =>
                         /\ db_properties'[l] = db_properties[l]
                         /\ Of(l, db_predictions') = Of(l, db_predictions)
              /\ db_call'.ret =
                     Cardinality({l \in DBListings :
                                     /\ db_properties[l].present
                                     /\ ~db_properties'[l].present})
      ]_vars

(* C30: fetch_html terminates for every URL: it issues at most           *)
(* max_retries + 1 requests (4 with the default of 3 retries), returns   *)
(* the page text on the first successful request without further         *)
(* requests, and returns None, without raising, once the initial attempt *)
(* and all retries have failed.                                          *)
C30_FetchHtmlTerminates ==
    /\ max_retries + 1 = 4
    /\ [](Len(fetch.requests) <= max_retries + 1)
    /\ [](\A i \in 1..(Len(fetch.requests) - 1) : fetch.requests[i] # "ok")
    /\ [](fetch.pc = "returned" =>
            LET n == Len(fetch.requests)
            IN  /\ n >= 1
                /\ IF fetch.requests[n] = "ok"
                   THEN fetch.result = ResponseText(fetch.url)
                   ELSE /\ fetch.result = FetchNone
                        /\ n = max_retries + 1)
    /\ (fetch.pc \in {"get", "sleep", "backoff"}) ~> (fetch.pc = "returned")

C30_Witness ==
    /\ fetch.pc = "returned"
    /\ fetch.result = FetchNone
    /\ Len(fetch.requests) = 4
    /\ \A i \in 1..4 : fetch.requests[i] \in RequestFailures

(* C28: after a successful training run, a click on the "predict all    *)
(* listings" button eventually runs predictor.predict on the trainable   *)
(* listings and writes the resulting prediction records to the store.    *)
C28_PredictClickWritesPredictions ==
    (app.click = "predict") ~> (app.written > 0)

=============================================================================
